---- MODULE Spec2Model ----
(***************************************************************************)
(* The 2D rigid body scene node (scene/dim2/rigidbody.rs): its ten         *)
(* template variables, the sleeping flag, the native handle cell and the   *)
(* queue of deferred actions, together with the builder, raw_copy,         *)
(* prefab inheritance and the physics step that consumes the queue.        *)
(*                                                                         *)
(* f32 and Vector2<f32> values are abstracted to small integers and pairs  *)
(* of integers: the node only stores, clones and forwards them.            *)
(***************************************************************************)
EXTENDS Integers, Sequences, FiniteSets, TLC

(***************************************************************************)
(* Bounds of the model.                                                    *)
(***************************************************************************)
\* Number of node slots of the graph.
MaxNodes == 2
\* Calls made on the nodes in a run of the property specification.
MaxPropCalls == 3
\* Calls made in a run of the queue specification.
MaxQueueCalls == 4
\* Calls made in a run of the graph specification.
MaxGraphCalls == 3
\* with_* calls made on a builder before it builds.
MaxWith == 2
\* Calls made in a run of the fair specification.
MaxLiveCalls == 3
\* Calls made in a run of the sleeping-body specification.
MaxWakeCalls == 4

NodeIds == 1..MaxNodes

\* Callers that enqueue actions (script callbacks, UI).
Producers == {"script", "ui"}

(***************************************************************************)
(* Values.                                                                 *)
(***************************************************************************)
\* Vector2<f32>
Vec == {<<0, 0>>, <<1, 0>>, <<3, 4>>}
\* f32
Scalar == {0, 1, 2}
\* RigidBodyType
RigidBodyType == {"Dynamic", "Static", "KinematicPositionBased", "KinematicVelocityBased"}
\* RigidBodyHandle::invalid()
InvalidHandle == 0
\* Default additional mass, 1.0
DefaultMass == 1

(***************************************************************************)
(* ApplyAction                                                             *)
(***************************************************************************)
Force(force) == [variant |-> "Force", force |-> force]
Torque(torque) == [variant |-> "Torque", torque |-> torque]
ForceAtPoint(force, point) == [variant |-> "ForceAtPoint", force |-> force, point |-> point]
Impulse(impulse) == [variant |-> "Impulse", impulse |-> impulse]
TorqueImpulse(torque_impulse) == [variant |-> "TorqueImpulse", torque_impulse |-> torque_impulse]
ImpulseAtPoint(impulse, point) == [variant |-> "ImpulseAtPoint", impulse |-> impulse, point |-> point]
WakeUp == [variant |-> "WakeUp"]

\* Who submitted a queue entry, as which of its submissions, and to which
\* node: history kept beside the action, which itself has no identity.
NoTag == [by |-> "none", seq |-> 0, node |-> 0]

\* VecDeque::push_back
push_back(q, a) == Append(q, [action |-> a, tag |-> NoTag])

(***************************************************************************)
(* TemplateVariable<T>: a value, the marker that it was explicitly set on  *)
(* this instance, and the flag that it changed since it was last           *)
(* synchronized.                                                           *)
(***************************************************************************)
\* TemplateVariable::new, Default, From<T>
TV_new(v) == [value |-> v, custom |-> FALSE, need_sync |-> FALSE]

\* TemplateVariable::set
TV_set(tv, v) == [value |-> v, custom |-> TRUE, need_sync |-> TRUE]

\* TemplateVariable::try_inherit
TV_try_inherit(tv, parent) == IF tv.custom THEN tv ELSE [tv EXCEPT !.value = parent.value]

\* Clone
TV_clone(tv) == tv

\* Deref
TV_get(tv) == tv.value

\* TemplateVariable::need_sync
TV_need_sync(tv) == tv.need_sync

\* The synchronization point of one property: the change has been read.
TV_sync(tv) == [tv EXCEPT !.need_sync = FALSE]

TemplateFields ==
    {"lin_vel", "ang_vel", "lin_damping", "ang_damping", "body_type", "mass",
     "rotation_locked", "translation_locked", "ccd_enabled", "can_sleep"}

(***************************************************************************)
(* RigidBody                                                               *)
(***************************************************************************)
\* impl Default for RigidBody
RigidBody_default ==
    [lin_vel |-> TV_new(<<0, 0>>),
     ang_vel |-> TV_new(0),
     lin_damping |-> TV_new(0),
     ang_damping |-> TV_new(0),
     sleeping |-> FALSE,
     body_type |-> TV_new("Dynamic"),
     mass |-> TV_new(DefaultMass),
     rotation_locked |-> TV_new(FALSE),
     translation_locked |-> TV_new(FALSE),
     ccd_enabled |-> TV_new(FALSE),
     can_sleep |-> TV_new(TRUE),
     native |-> InvalidHandle,
     actions |-> <<>>]

\* raw_copy that clones the queue with the other fields.
raw_copy_with_actions(self) == [self EXCEPT !.native = InvalidHandle]

\* raw_copy that copies the values into fresh template variables.
raw_copy_unmarked(self) ==
    [lin_vel |-> TV_new(TV_get(self.lin_vel)),
     ang_vel |-> TV_new(TV_get(self.ang_vel)),
     lin_damping |-> TV_new(TV_get(self.lin_damping)),
     ang_damping |-> TV_new(TV_get(self.ang_damping)),
     sleeping |-> self.sleeping,
     body_type |-> TV_new(TV_get(self.body_type)),
     mass |-> TV_new(TV_get(self.mass)),
     rotation_locked |-> TV_new(TV_get(self.rotation_locked)),
     translation_locked |-> TV_new(TV_get(self.translation_locked)),
     ccd_enabled |-> TV_new(TV_get(self.ccd_enabled)),
     can_sleep |-> TV_new(TV_get(self.can_sleep)),
     native |-> InvalidHandle,
     actions |-> <<>>]

\* raw_copy that copies the handle cell with the other fields.
raw_copy_with_native(self) == [self EXCEPT !.actions = <<>>]

raw_copy(self) ==
    [lin_vel |-> TV_clone(self.lin_vel),
     ang_vel |-> TV_clone(self.ang_vel),
     lin_damping |-> TV_clone(self.lin_damping),
     ang_damping |-> TV_clone(self.ang_damping),
     sleeping |-> self.sleeping,
     body_type |-> TV_clone(self.body_type),
     mass |-> TV_clone(self.mass),
     rotation_locked |-> TV_clone(self.rotation_locked),
     translation_locked |-> TV_clone(self.translation_locked),
     ccd_enabled |-> TV_clone(self.ccd_enabled),
     can_sleep |-> TV_clone(self.can_sleep),
     native |-> InvalidHandle,
     actions |-> <<>>]

\* set_lin_vel that stores the value without marking it explicit.
set_lin_vel_unmarked(self, lin_vel) == [self EXCEPT !.lin_vel = TV_new(lin_vel)]

set_lin_vel(self, lin_vel) == [self EXCEPT !.lin_vel = TV_set(@, lin_vel)]
lin_vel(self) == TV_get(self.lin_vel)

\* set_ang_vel that also requests a wake-up.
set_ang_vel_waking(self, ang_vel) ==
    [self EXCEPT !.ang_vel = TV_set(@, ang_vel), !.actions = push_back(@, WakeUp)]

set_ang_vel(self, ang_vel) == [self EXCEPT !.ang_vel = TV_set(@, ang_vel)]
ang_vel(self) == TV_get(self.ang_vel)

\* set_mass that forgets the backend body.
set_mass_resetting_native(self, mass) ==
    [self EXCEPT !.mass = TV_set(@, mass), !.native = InvalidHandle]

set_mass(self, mass) == [self EXCEPT !.mass = TV_set(@, mass)]
mass(self) == TV_get(self.mass)

set_ang_damping(self, damping) == [self EXCEPT !.ang_damping = TV_set(@, damping)]
ang_damping(self) == TV_get(self.ang_damping)

set_lin_damping(self, damping) == [self EXCEPT !.lin_damping = TV_set(@, damping)]
lin_damping(self) == TV_get(self.lin_damping)

lock_rotations(self, state) == [self EXCEPT !.rotation_locked = TV_set(@, state)]
is_rotation_locked(self) == TV_get(self.rotation_locked)

\* lock_translation that locks the rotations as well.
lock_translation_and_rotations(self, state) ==
    [self EXCEPT !.translation_locked = TV_set(@, state), !.rotation_locked = TV_set(@, state)]

lock_translation(self, state) == [self EXCEPT !.translation_locked = TV_set(@, state)]
is_translation_locked(self) == TV_get(self.translation_locked)

set_body_type(self, body_type) == [self EXCEPT !.body_type = TV_set(@, body_type)]
body_type(self) == TV_get(self.body_type)

is_sleeping(self) == self.sleeping

is_ccd_enabled(self) == TV_get(self.ccd_enabled)
enable_ccd(self, enable) == [self EXCEPT !.ccd_enabled = TV_set(@, enable)]

\* apply_force that puts the action at the head of the queue.
apply_force_at_head(self, force) ==
    [self EXCEPT !.actions = <<[action |-> Force(force), tag |-> NoTag]>> \o @]

apply_force(self, force) == [self EXCEPT !.actions = push_back(@, Force(force))]

apply_torque(self, torque) == [self EXCEPT !.actions = push_back(@, Torque(torque))]

apply_force_at_point(self, force, point) ==
    [self EXCEPT !.actions = push_back(@, ForceAtPoint(force, point))]

apply_impulse(self, impulse) == [self EXCEPT !.actions = push_back(@, Impulse(impulse))]

\* apply_torque_impulse that enqueues a torque.
apply_torque_impulse_as_torque(self, torque_impulse) ==
    [self EXCEPT !.actions = push_back(@, Torque(torque_impulse))]

apply_torque_impulse(self, torque_impulse) ==
    [self EXCEPT !.actions = push_back(@, TorqueImpulse(torque_impulse))]

apply_impulse_at_point(self, impulse, point) ==
    [self EXCEPT !.actions = push_back(@, ImpulseAtPoint(impulse, point))]

set_can_sleep(self, can_sleep) == [self EXCEPT !.can_sleep = TV_set(@, can_sleep)]
is_can_sleep(self) == TV_get(self.can_sleep)

\* need_sync_model that does not ask the sleep permission.
need_sync_model_without_can_sleep(self) ==
    \/ TV_need_sync(self.lin_vel)
    \/ TV_need_sync(self.ang_vel)
    \/ TV_need_sync(self.lin_damping)
    \/ TV_need_sync(self.ang_damping)
    \/ TV_need_sync(self.body_type)
    \/ TV_need_sync(self.mass)
    \/ TV_need_sync(self.rotation_locked)
    \/ TV_need_sync(self.translation_locked)
    \/ TV_need_sync(self.ccd_enabled)

need_sync_model(self) ==
    \/ TV_need_sync(self.lin_vel)
    \/ TV_need_sync(self.ang_vel)
    \/ TV_need_sync(self.lin_damping)
    \/ TV_need_sync(self.ang_damping)
    \/ TV_need_sync(self.body_type)
    \/ TV_need_sync(self.mass)
    \/ TV_need_sync(self.rotation_locked)
    \/ TV_need_sync(self.translation_locked)
    \/ TV_need_sync(self.ccd_enabled)
    \/ TV_need_sync(self.can_sleep)

\* wake_up that replaces what is queued by the wake-up request.
wake_up_alone(self) == [self EXCEPT !.actions = push_back(<<>>, WakeUp)]

wake_up(self) == [self EXCEPT !.actions = push_back(@, WakeUp)]

\* What visiting writes of a rigid body: the fields of the structure that
\* are not marked visit(skip).
visit_save(self) ==
    [lin_vel |-> self.lin_vel,
     ang_vel |-> self.ang_vel,
     lin_damping |-> self.lin_damping,
     ang_damping |-> self.ang_damping,
     body_type |-> self.body_type,
     mass |-> self.mass,
     rotation_locked |-> self.rotation_locked,
     translation_locked |-> self.translation_locked,
     ccd_enabled |-> self.ccd_enabled,
     can_sleep |-> self.can_sleep]

\* Loading that does not read the mass.
visit_load_without_mass(saved) ==
    [RigidBody_default EXCEPT
        !.lin_vel = saved.lin_vel,
        !.ang_vel = saved.ang_vel,
        !.lin_damping = saved.lin_damping,
        !.ang_damping = saved.ang_damping,
        !.body_type = saved.body_type,
        !.rotation_locked = saved.rotation_locked,
        !.translation_locked = saved.translation_locked,
        !.ccd_enabled = saved.ccd_enabled,
        !.can_sleep = saved.can_sleep]

\* What visiting reads into a default rigid body: the same fields; the
\* skipped ones keep their defaults.
visit_load(saved) ==
    [RigidBody_default EXCEPT
        !.lin_vel = saved.lin_vel,
        !.ang_vel = saved.ang_vel,
        !.lin_damping = saved.lin_damping,
        !.ang_damping = saved.ang_damping,
        !.body_type = saved.body_type,
        !.mass = saved.mass,
        !.rotation_locked = saved.rotation_locked,
        !.translation_locked = saved.translation_locked,
        !.ccd_enabled = saved.ccd_enabled,
        !.can_sleep = saved.can_sleep]

\* A node of the graph as inherit sees it: a rigid body, or a node of
\* another kind.
Node_RigidBody2D(rb) == [kind |-> "RigidBody2D", body |-> rb]
Node_Other == [kind |-> "Other"]

\* inherit with the mass left out.
inherit_without_mass(self, parent) ==
    IF parent.kind = "RigidBody2D"
    THEN [self EXCEPT
            !.lin_vel = TV_try_inherit(@, parent.body.lin_vel),
            !.ang_vel = TV_try_inherit(@, parent.body.ang_vel),
            !.lin_damping = TV_try_inherit(@, parent.body.lin_damping),
            !.ang_damping = TV_try_inherit(@, parent.body.ang_damping),
            !.body_type = TV_try_inherit(@, parent.body.body_type),
            !.rotation_locked = TV_try_inherit(@, parent.body.rotation_locked),
            !.translation_locked = TV_try_inherit(@, parent.body.translation_locked),
            !.ccd_enabled = TV_try_inherit(@, parent.body.ccd_enabled),
            !.can_sleep = TV_try_inherit(@, parent.body.can_sleep)]
    ELSE self

\* inherit with the linear damping resolved against the parent's angular damping.
inherit_crossed_damping(self, parent) ==
    IF parent.kind = "RigidBody2D"
    THEN [self EXCEPT
            !.lin_vel = TV_try_inherit(@, parent.body.lin_vel),
            !.ang_vel = TV_try_inherit(@, parent.body.ang_vel),
            !.lin_damping = TV_try_inherit(@, parent.body.ang_damping),
            !.ang_damping = TV_try_inherit(@, parent.body.ang_damping),
            !.body_type = TV_try_inherit(@, parent.body.body_type),
            !.mass = TV_try_inherit(@, parent.body.mass),
            !.rotation_locked = TV_try_inherit(@, parent.body.rotation_locked),
            !.translation_locked = TV_try_inherit(@, parent.body.translation_locked),
            !.ccd_enabled = TV_try_inherit(@, parent.body.ccd_enabled),
            !.can_sleep = TV_try_inherit(@, parent.body.can_sleep)]
    ELSE self

inherit(self, parent) ==
    IF parent.kind = "RigidBody2D"
    THEN [self EXCEPT
            !.lin_vel = TV_try_inherit(@, parent.body.lin_vel),
            !.ang_vel = TV_try_inherit(@, parent.body.ang_vel),
            !.lin_damping = TV_try_inherit(@, parent.body.lin_damping),
            !.ang_damping = TV_try_inherit(@, parent.body.ang_damping),
            !.body_type = TV_try_inherit(@, parent.body.body_type),
            !.mass = TV_try_inherit(@, parent.body.mass),
            !.rotation_locked = TV_try_inherit(@, parent.body.rotation_locked),
            !.translation_locked = TV_try_inherit(@, parent.body.translation_locked),
            !.ccd_enabled = TV_try_inherit(@, parent.body.ccd_enabled),
            !.can_sleep = TV_try_inherit(@, parent.body.can_sleep)]
    ELSE self

(***************************************************************************)
(* RigidBodyBuilder                                                        *)
(***************************************************************************)
RigidBodyBuilder_new ==
    [lin_vel |-> <<0, 0>>,
     ang_vel |-> 0,
     lin_damping |-> 0,
     ang_damping |-> 0,
     sleeping |-> FALSE,
     body_type |-> "Dynamic",
     mass |-> DefaultMass,
     rotation_locked |-> FALSE,
     translation_locked |-> FALSE,
     ccd_enabled |-> FALSE,
     can_sleep |-> TRUE]

with_body_type(b, v) == [b EXCEPT !.body_type = v]
with_mass(b, v) == [b EXCEPT !.mass = v]
with_ccd_enabled(b, v) == [b EXCEPT !.ccd_enabled = v]
with_lin_vel(b, v) == [b EXCEPT !.lin_vel = v]
with_ang_vel(b, v) == [b EXCEPT !.ang_vel = v]
with_ang_damping(b, v) == [b EXCEPT !.ang_damping = v]
with_lin_damping(b, v) == [b EXCEPT !.lin_damping = v]
with_rotation_locked(b, v) == [b EXCEPT !.rotation_locked = v]
with_translation_locked(b, v) == [b EXCEPT !.translation_locked = v]
with_sleeping(b, v) == [b EXCEPT !.sleeping = v]
with_can_sleep(b, v) == [b EXCEPT !.can_sleep = v]

\* build_node that leaves the continuous collision flag at its default.
build_node_default_ccd(b) ==
    [lin_vel |-> TV_new(b.lin_vel),
     ang_vel |-> TV_new(b.ang_vel),
     lin_damping |-> TV_new(b.lin_damping),
     ang_damping |-> TV_new(b.ang_damping),
     sleeping |-> b.sleeping,
     body_type |-> TV_new(b.body_type),
     mass |-> TV_new(b.mass),
     rotation_locked |-> TV_new(b.rotation_locked),
     translation_locked |-> TV_new(b.translation_locked),
     ccd_enabled |-> TV_new(FALSE),
     can_sleep |-> TV_new(b.can_sleep),
     native |-> InvalidHandle,
     actions |-> <<>>]

build_node(b) ==
    [lin_vel |-> TV_new(b.lin_vel),
     ang_vel |-> TV_new(b.ang_vel),
     lin_damping |-> TV_new(b.lin_damping),
     ang_damping |-> TV_new(b.ang_damping),
     sleeping |-> b.sleeping,
     body_type |-> TV_new(b.body_type),
     mass |-> TV_new(b.mass),
     rotation_locked |-> TV_new(b.rotation_locked),
     translation_locked |-> TV_new(b.translation_locked),
     ccd_enabled |-> TV_new(b.ccd_enabled),
     can_sleep |-> TV_new(b.can_sleep),
     native |-> InvalidHandle,
     actions |-> <<>>]

\* The builders the scenes of the model are made with.
Builders ==
    {RigidBodyBuilder_new,
     with_lin_vel(with_mass(RigidBodyBuilder_new, 2), <<3, 4>>),
     with_sleeping(with_body_type(RigidBodyBuilder_new, "Static"), TRUE),
     with_can_sleep(with_sleeping(
        with_body_type(RigidBodyBuilder_new, "KinematicPositionBased"), TRUE), FALSE)}

(***************************************************************************)
(* State                                                                   *)
(***************************************************************************)
VARIABLES
    nodes,       \* the rigid bodies in the slots of the graph
    live,        \* the slots that hold a node
    nextHandle,  \* the next handle the physics backend hands out
    submitted,   \* per producer, the tags of the actions it has enqueued, in order
    stepNode,    \* the node whose actions the physics step is applying, or 0
    batch,       \* the drained actions the step has not applied yet
    drained,     \* every queue entry a drain has returned, in order
    last,        \* the call that produced the current state
    velWrite,    \* per node, a velocity written while the body slept: "set" until
                 \* a step reads it, "read" while that step runs, else "none"
    fuel         \* the calls the run may still make

vars == <<nodes, live, nextHandle, submitted, stepNode, batch, drained, last, velWrite, fuel>>

NoCall == [op |-> "init", node |-> 0, args |-> <<>>, by |-> "none", ret |-> <<>>]

CallRec(op, n, args, by, ret) == [op |-> op, node |-> n, args |-> args, by |-> by, ret |-> ret]

\* The state after the scene has been built: the first k slots hold nodes
\* made by the builder (the first by any of the builders bs, the others
\* freshly built with the defaults), nothing is registered, nothing is queued.
InitScene(k, f, bs) ==
    /\ \E b \in bs :
         nodes = [n \in NodeIds |-> IF n = 1 THEN build_node(b)
                                    ELSE IF n <= k THEN build_node(RigidBodyBuilder_new)
                                    ELSE RigidBody_default]
    /\ live = 1..k
    /\ nextHandle = 1
    /\ submitted = [p \in Producers |-> <<>>]
    /\ stepNode = 0
    /\ batch = <<>>
    /\ drained = <<>>
    /\ last = NoCall
    /\ velWrite = [n \in NodeIds |-> "none"]
    /\ fuel = f

(***************************************************************************)
(* Calls of the property setters and of inherit                            *)
(***************************************************************************)
\* A &mut self call on node n that leaves `body` in its slot.
Call(n, op, args, body) ==
    /\ fuel > 0
    /\ n \in live
    /\ nodes' = [nodes EXCEPT ![n] = body]
    /\ last' = CallRec(op, n, args, "none", <<>>)
    /\ velWrite' = IF op \in {"set_lin_vel", "set_ang_vel"} /\ nodes[n].sleeping
                   THEN [velWrite EXCEPT ![n] = "set"]
                   ELSE velWrite
    /\ fuel' = fuel - 1
    /\ UNCHANGED <<live, nextHandle, submitted, stepNode, batch, drained>>

SetLinVel(n, v) == Call(n, "set_lin_vel", <<v>>, set_lin_vel(nodes[n], v))
SetAngVel(n, v) == Call(n, "set_ang_vel", <<v>>, set_ang_vel(nodes[n], v))
SetMass(n, v) == Call(n, "set_mass", <<v>>, set_mass(nodes[n], v))
SetAngDamping(n, v) == Call(n, "set_ang_damping", <<v>>, set_ang_damping(nodes[n], v))
SetLinDamping(n, v) == Call(n, "set_lin_damping", <<v>>, set_lin_damping(nodes[n], v))
LockRotations(n, v) == Call(n, "lock_rotations", <<v>>, lock_rotations(nodes[n], v))
LockTranslation(n, v) == Call(n, "lock_translation", <<v>>, lock_translation(nodes[n], v))
SetBodyType(n, v) == Call(n, "set_body_type", <<v>>, set_body_type(nodes[n], v))
EnableCcd(n, v) == Call(n, "enable_ccd", <<v>>, enable_ccd(nodes[n], v))
SetCanSleep(n, v) == Call(n, "set_can_sleep", <<v>>, set_can_sleep(nodes[n], v))

\* inherit(parent) with the rigid body in slot p as the parent
Inherit(n, p) ==
    /\ p \in live
    /\ p # n
    /\ Call(n, "inherit", <<p>>, inherit(nodes[n], Node_RigidBody2D(nodes[p])))

\* inherit(parent) with a parent of another kind
InheritOther(n) == Call(n, "inherit", <<0>>, inherit(nodes[n], Node_Other))

(***************************************************************************)
(* Calls of the command operations                                         *)
(***************************************************************************)
\* The entries a call has just pushed get the caller's tag.
Stamp(q, tag) == [i \in DOMAIN q |-> IF q[i].tag = NoTag THEN [q[i] EXCEPT !.tag = tag] ELSE q[i]]

\* A command that waits while the physics step works on the node.
Enqueue_after_step(n, p, op, args, body) ==
    LET tag == [by |-> p, seq |-> Len(submitted[p]) + 1, node |-> n]
    IN /\ fuel > 0
       /\ n \in live
       /\ stepNode # n
       /\ nodes' = [nodes EXCEPT ![n] = [body EXCEPT !.actions = Stamp(@, tag)]]
       /\ submitted' = [submitted EXCEPT ![p] = Append(@, tag)]
       /\ last' = CallRec(op, n, args, p, <<>>)
       /\ fuel' = fuel - 1
       /\ UNCHANGED <<live, nextHandle, stepNode, batch, drained, velWrite>>

\* A command called by producer p on node n that leaves `body` in its slot.
Enqueue(n, p, op, args, body) ==
    LET tag == [by |-> p, seq |-> Len(submitted[p]) + 1, node |-> n]
    IN /\ fuel > 0
       /\ n \in live
       /\ nodes' = [nodes EXCEPT ![n] = [body EXCEPT !.actions = Stamp(@, tag)]]
       /\ submitted' = [submitted EXCEPT ![p] = Append(@, tag)]
       /\ last' = CallRec(op, n, args, p, <<>>)
       /\ fuel' = fuel - 1
       /\ UNCHANGED <<live, nextHandle, stepNode, batch, drained, velWrite>>

ApplyForce(n, p, v) == Enqueue(n, p, "apply_force", <<v>>, apply_force(nodes[n], v))
ApplyTorque(n, p, v) == Enqueue(n, p, "apply_torque", <<v>>, apply_torque(nodes[n], v))
ApplyForceAtPoint(n, p, v, pt) ==
    Enqueue(n, p, "apply_force_at_point", <<v, pt>>, apply_force_at_point(nodes[n], v, pt))
ApplyImpulse(n, p, v) == Enqueue(n, p, "apply_impulse", <<v>>, apply_impulse(nodes[n], v))
ApplyTorqueImpulse(n, p, v) ==
    Enqueue(n, p, "apply_torque_impulse", <<v>>, apply_torque_impulse(nodes[n], v))
ApplyImpulseAtPoint(n, p, v, pt) ==
    Enqueue(n, p, "apply_impulse_at_point", <<v, pt>>, apply_impulse_at_point(nodes[n], v, pt))
WakeUpCall(n, p) == Enqueue(n, p, "wake_up", <<>>, wake_up(nodes[n]))

(***************************************************************************)
(* The physics step: the single consumer of the queues                     *)
(***************************************************************************)
\* drain(): takes every queued action of the node, in order, and leaves the
\* queue empty.
drain(self) == [rest |-> [self EXCEPT !.actions = <<>>], taken |-> self.actions]

\* The step reads the changed properties of the node into the backend
\* body: the synchronization point of all ten.
sync_model(self) ==
    [self EXCEPT
        !.lin_vel = TV_sync(@),
        !.ang_vel = TV_sync(@),
        !.lin_damping = TV_sync(@),
        !.ang_damping = TV_sync(@),
        !.body_type = TV_sync(@),
        !.mass = TV_sync(@),
        !.rotation_locked = TV_sync(@),
        !.translation_locked = TV_sync(@),
        !.ccd_enabled = TV_sync(@),
        !.can_sleep = TV_sync(@)]

Drain(n) ==
    /\ fuel > 0
    /\ n \in live
    /\ stepNode = 0
    /\ LET d == drain(sync_model(nodes[n]))
       IN /\ nodes' = [nodes EXCEPT ![n] = d.rest]
          /\ batch' = d.taken
          /\ drained' = drained \o d.taken
          /\ last' = CallRec("drain", n, <<>>, "integrator", d.taken)
    /\ stepNode' = n
    /\ velWrite' = IF velWrite[n] = "set" THEN [velWrite EXCEPT ![n] = "read"] ELSE velWrite
    /\ fuel' = fuel - 1
    /\ UNCHANGED <<live, nextHandle, submitted>>

\* What applying one drained action does to the node: a wake-up request
\* wakes a registered body; the forces and impulses act on the backend
\* body only.
apply_action(self, a) ==
    IF a.variant = "WakeUp" /\ self.native # InvalidHandle
    THEN [self EXCEPT !.sleeping = FALSE]
    ELSE self

Apply ==
    /\ stepNode # 0
    /\ batch # <<>>
    /\ nodes' = [nodes EXCEPT ![stepNode] = apply_action(@, Head(batch).action)]
    /\ batch' = Tail(batch)
    /\ last' = CallRec("apply", stepNode, <<Head(batch).action>>, "integrator", <<>>)
    /\ velWrite' = IF Head(batch).action = WakeUp
                   THEN [velWrite EXCEPT ![stepNode] = "none"]
                   ELSE velWrite
    /\ UNCHANGED <<live, nextHandle, submitted, stepNode, drained, fuel>>

\* The end of the step writes the backend's sleeping state back; a body
\* that may not sleep is awake.
StepEnd(s) ==
    /\ stepNode # 0
    /\ batch = <<>>
    /\ TV_get(nodes[stepNode].can_sleep) \/ ~s
    /\ nodes' = [nodes EXCEPT ![stepNode].sleeping = s]
    /\ stepNode' = 0
    /\ last' = CallRec("step_end", stepNode, <<s>>, "integrator", <<>>)
    /\ velWrite' = [velWrite EXCEPT ![stepNode] = "none"]
    /\ UNCHANGED <<live, nextHandle, submitted, batch, drained, fuel>>

\* Registration with the simulation: the backend creates the body and the
\* integrator stores its handle in the node.
Register(n) ==
    /\ fuel > 0
    /\ n \in live
    /\ nodes[n].native = InvalidHandle
    /\ nodes' = [nodes EXCEPT ![n].native = nextHandle]
    /\ nextHandle' = nextHandle + 1
    /\ last' = CallRec("register", n, <<>>, "integrator", <<nextHandle>>)
    /\ fuel' = fuel - 1
    /\ UNCHANGED <<live, submitted, stepNode, batch, drained, velWrite>>

(***************************************************************************)
(* The graph: building, duplicating and removing nodes                     *)
(***************************************************************************)
FreeSlots == NodeIds \ live
FirstFree == CHOOSE n \in FreeSlots : \A m \in FreeSlots : n <= m

\* RigidBodyBuilder::build: the built node is added to the graph.
BuildNode(b) ==
    /\ fuel > 0
    /\ FreeSlots # {}
    /\ nodes' = [nodes EXCEPT ![FirstFree] = build_node(b)]
    /\ live' = live \cup {FirstFree}
    /\ last' = CallRec("build", FirstFree, <<>>, "none", <<>>)
    /\ fuel' = fuel - 1
    /\ UNCHANGED <<nextHandle, submitted, stepNode, batch, drained, velWrite>>

\* raw_copy of the node in slot src; the copy is added to the graph.
RawCopy(src) ==
    /\ fuel > 0
    /\ src \in live
    /\ FreeSlots # {}
    /\ nodes' = [nodes EXCEPT ![FirstFree] = raw_copy(nodes[src])]
    /\ live' = live \cup {FirstFree}
    /\ last' = CallRec("raw_copy", src, <<>>, "none", <<FirstFree>>)
    /\ fuel' = fuel - 1
    /\ UNCHANGED <<nextHandle, submitted, stepNode, batch, drained, velWrite>>

\* The node in slot src is saved and loaded back as a new node of the
\* graph.
SaveLoad(src) ==
    /\ fuel > 0
    /\ src \in live
    /\ FreeSlots # {}
    /\ nodes' = [nodes EXCEPT ![FirstFree] = visit_load(visit_save(nodes[src]))]
    /\ live' = live \cup {FirstFree}
    /\ last' = CallRec("load", FirstFree, <<src>>, "none", <<>>)
    /\ fuel' = fuel - 1
    /\ UNCHANGED <<nextHandle, submitted, stepNode, batch, drained, velWrite>>

\* The node is removed from the graph and destroyed with its queue.
RemoveNode(n) ==
    /\ fuel > 0
    /\ n \in live
    /\ stepNode # n
    /\ nodes' = [nodes EXCEPT ![n] = RigidBody_default]
    /\ live' = live \ {n}
    /\ last' = CallRec("remove", n, <<>>, "none", <<>>)
    /\ velWrite' = [velWrite EXCEPT ![n] = "none"]
    /\ fuel' = fuel - 1
    /\ UNCHANGED <<nextHandle, submitted, stepNode, batch, drained>>

(***************************************************************************)
(* Specifications                                                          *)
(***************************************************************************)
\* The setters called on node n with inputs drawn from V (vectors),
\* S (scalars), B (flags) and T (body types).
Setters(n, V, S, B, T) ==
    \/ \E v \in V : SetLinVel(n, v)
    \/ \E v \in S : SetAngVel(n, v)
    \/ \E v \in S : SetMass(n, v)
    \/ \E v \in S : SetAngDamping(n, v)
    \/ \E v \in S : SetLinDamping(n, v)
    \/ \E v \in B : LockRotations(n, v)
    \/ \E v \in B : LockTranslation(n, v)
    \/ \E v \in T : SetBodyType(n, v)
    \/ \E v \in B : EnableCcd(n, v)
    \/ \E v \in BOOLEAN : SetCanSleep(n, v)

\* The seven commands called on node n by producer p with inputs drawn
\* from V (vectors) and S (scalars).
Commands(n, p, V, S) ==
    \/ \E v \in V : ApplyForce(n, p, v)
    \/ \E v \in S : ApplyTorque(n, p, v)
    \/ \E v \in V, pt \in V : ApplyForceAtPoint(n, p, v, pt)
    \/ \E v \in V : ApplyImpulse(n, p, v)
    \/ \E v \in S : ApplyTorqueImpulse(n, p, v)
    \/ \E v \in V, pt \in V : ApplyImpulseAtPoint(n, p, v, pt)
    \/ WakeUpCall(n, p)

\* The physics step on node n.
Step(n) ==
    \/ Drain(n)
    \/ n = stepNode /\ Apply
    \/ n = stepNode /\ \E s \in BOOLEAN : StepEnd(s)

\* Property specification: a template node and an instance of it, the
\* setters and prefab inheritance.
PropBuilders ==
    {RigidBodyBuilder_new,
     with_lin_vel(with_mass(RigidBodyBuilder_new, 2), <<3, 4>>)}

InitProps == InitScene(2, MaxPropCalls, PropBuilders)

NextProps ==
    \E n \in NodeIds :
        \/ Setters(n, {<<0, 0>>, <<3, 4>>}, {0, 2}, BOOLEAN, {"Dynamic", "Static"})
        \/ \E p \in NodeIds : Inherit(n, p)
        \/ InheritOther(n)

SpecProps == InitProps /\ [][NextProps]_vars

\* Queue specification: two producers enqueue on one node while the
\* physics step drains it.
InitQueue == InitScene(1, MaxQueueCalls, Builders)

NextQueue ==
    \E n \in NodeIds :
        \/ \E p \in Producers :
            \/ \E v \in {<<1, 0>>, <<3, 4>>} : ApplyForce(n, p, v)
            \/ ApplyImpulse(n, p, <<1, 0>>)
            \/ WakeUpCall(n, p)
        \/ Register(n)
        \/ Step(n)

SpecQueue == InitQueue /\ [][NextQueue]_vars

\* Graph specification: nodes are built, registered, duplicated and
\* removed while setters, commands and the physics step run on them.
GraphBuilders ==
    {RigidBodyBuilder_new,
     with_lin_vel(with_sleeping(with_body_type(RigidBodyBuilder_new, "Static"), TRUE), <<3, 4>>)}

InitGraph == InitScene(1, MaxGraphCalls, GraphBuilders)

NextGraph ==
    \/ \E b \in GraphBuilders : BuildNode(b)
    \/ \E n \in NodeIds :
        \/ RawCopy(n)
        \/ SaveLoad(n)
        \/ RemoveNode(n)
        \/ Register(n)
        \/ Setters(n, {<<3, 4>>}, {2}, {TRUE}, {"Static"})
        \/ Commands(n, "script", {<<1, 0>>}, {2})
        \/ \E p \in NodeIds : Inherit(n, p)
        \/ InheritOther(n)
        \/ Step(n)

Spec == InitGraph /\ [][NextGraph]_vars

(***************************************************************************)
(* Vocabulary of the properties                                            *)
(***************************************************************************)
\* The template variable each setter writes.
SetterField ==
    [set_lin_vel |-> "lin_vel", set_ang_vel |-> "ang_vel", set_mass |-> "mass",
     set_ang_damping |-> "ang_damping", set_lin_damping |-> "lin_damping",
     lock_rotations |-> "rotation_locked", lock_translation |-> "translation_locked",
     set_body_type |-> "body_type", enable_ccd |-> "ccd_enabled",
     set_can_sleep |-> "can_sleep"]

SetterOps == DOMAIN SetterField

CommandOps ==
    {"apply_force", "apply_torque", "apply_force_at_point", "apply_impulse",
     "apply_torque_impulse", "apply_impulse_at_point", "wake_up"}

\* What the getter of template variable f returns on a rigid body.
Getter(self, f) ==
    CASE f = "lin_vel" -> lin_vel(self)
      [] f = "ang_vel" -> ang_vel(self)
      [] f = "mass" -> mass(self)
      [] f = "ang_damping" -> ang_damping(self)
      [] f = "lin_damping" -> lin_damping(self)
      [] f = "rotation_locked" -> is_rotation_locked(self)
      [] f = "translation_locked" -> is_translation_locked(self)
      [] f = "body_type" -> body_type(self)
      [] f = "ccd_enabled" -> is_ccd_enabled(self)
      [] f = "can_sleep" -> is_can_sleep(self)

\* The step just taken was a call of inherit whose parent is a rigid body.
InheritedFromBody(call) == call.op = "inherit" /\ call.args[1] # 0

(***************************************************************************)
(* C7: a set call makes the getter return the value just set and marks the *)
(* property explicit; every other call, inherit with any parent included,  *)
(* leaves an explicitly set property of a node as it is, so the getter     *)
(* keeps returning the most recently set value and the property never      *)
(* goes back to mirroring the template.                                    *)
(***************************************************************************)
C7_SetWinsOverInherit ==
    [][\A n \in live, f \in TemplateFields :
         IF last'.op \in SetterOps /\ last'.node = n /\ SetterField[last'.op] = f
         THEN /\ Getter(nodes'[n], f) = last'.args[1]
              /\ nodes'[n][f].custom
         ELSE nodes[n][f].custom => nodes'[n][f] = nodes[n][f]]_vars

\* inherit has just run on a node whose explicitly set linear velocity
\* differs from the parent's.
C7_Witness ==
    /\ InheritedFromBody(last)
    /\ nodes[last.node].lin_vel.custom
    /\ lin_vel(nodes[last.node]) # lin_vel(nodes[last.args[1]])

(***************************************************************************)
(* C8: inherit from a rigid body parent gives every property that was not  *)
(* explicitly set on the instance the parent's current value, whatever     *)
(* the parent's value has been changed to, and leaves it non-explicit.     *)
(***************************************************************************)
C8_UntouchedFollowsParent ==
    [][InheritedFromBody(last') =>
         \A f \in TemplateFields :
            ~nodes[last'.node][f].custom =>
                /\ Getter(nodes'[last'.node], f) = Getter(nodes[last'.args[1]], f)
                /\ ~nodes'[last'.node][f].custom]_vars

\* The parent's linear velocity and mass were explicitly changed, and
\* inherit has given both to an instance that never set them.
C8_Witness ==
    /\ InheritedFromBody(last)
    /\ nodes[last.args[1]].lin_vel.custom
    /\ nodes[last.args[1]].mass.custom
    /\ ~nodes[last.node].lin_vel.custom
    /\ lin_vel(nodes[last.node]) = lin_vel(nodes[last.args[1]])
    /\ mass(nodes[last.node]) = mass(nodes[last.args[1]])
    /\ mass(nodes[last.node]) # DefaultMass

(***************************************************************************)
(* C9: inherit resolves each of the ten properties against the parent's    *)
(* property of the same name: a property explicitly set on the node keeps  *)
(* its value and any other takes the parent's, so a freshly built node     *)
(* takes all ten; a parent of another kind changes nothing.                *)
(***************************************************************************)
C9_InheritPairwise ==
    [][last'.op = "inherit" =>
         LET n == last'.node
             p == last'.args[1]
         IN IF p = 0
            THEN nodes'[n] = nodes[n]
            ELSE /\ \A f \in TemplateFields :
                      nodes'[n][f] = IF nodes[n][f].custom
                                     THEN nodes[n][f]
                                     ELSE [nodes[n][f] EXCEPT !.value = nodes[p][f].value]
                 /\ (\A f \in TemplateFields : ~nodes[n][f].custom) =>
                      \A f \in TemplateFields : Getter(nodes'[n], f) = Getter(nodes[p], f)]_vars

\* Node 1 has linear velocity (3,4) and mass 2; node 2 set its linear
\* velocity to (0,0) and then inherited from node 1: it kept (0,0) and
\* took the mass.
C9_Witness ==
    /\ InheritedFromBody(last)
    /\ last.node = 2
    /\ last.args[1] = 1
    /\ lin_vel(nodes[1]) = <<3, 4>>
    /\ nodes[2].lin_vel.custom
    /\ lin_vel(nodes[2]) = <<0, 0>>
    /\ mass(nodes[1]) = 2
    /\ ~nodes[2].mass.custom
    /\ mass(nodes[2]) = 2

(***************************************************************************)
(* C1: set_can_sleep(false) leaves a wake-up action pending in the node's  *)
(* queue, whatever the queue held before; set_can_sleep(true) leaves the   *)
(* queue unchanged.                                                        *)
(***************************************************************************)
C1_CanSleepFalseEnqueuesWakeUp ==
    [][last'.op = "set_can_sleep" =>
         LET q == nodes'[last'.node].actions
         IN IF last'.args[1] = FALSE
            THEN \E i \in DOMAIN q : q[i].action = WakeUp
            ELSE q = nodes[last'.node].actions]_vars

(***************************************************************************)
(* C2: raw_copy of a node in any state gives a node with an empty action   *)
(* queue and an invalid handle, whose ten property getters and sleeping    *)
(* flag return what the source's return.                                   *)
(***************************************************************************)
C2_RawCopyResets ==
    last.op = "raw_copy" =>
        LET src == nodes[last.node]
            copy == nodes[last.ret[1]]
        IN /\ copy.actions = <<>>
           /\ copy.native = InvalidHandle
           /\ \A f \in TemplateFields : Getter(copy, f) = Getter(src, f)
           /\ is_sleeping(copy) = is_sleeping(src)

\* A registered, sleeping node with a queued action has just been copied.
C2_Witness ==
    /\ last.op = "raw_copy"
    /\ nodes[last.node].actions # <<>>
    /\ nodes[last.node].native # InvalidHandle
    /\ is_sleeping(nodes[last.node])
    /\ last.ret[1] \in live

(***************************************************************************)
(* C3: no two live nodes hold the same valid handle, and no two share a    *)
(* queue: the entries in a node's queue were enqueued on that node, and a  *)
(* drain of a node returns only entries enqueued on it.                    *)
(***************************************************************************)
C3_NoSharedHandleOrQueue ==
    /\ \A n \in live, m \in live :
        (n # m /\ nodes[n].native # InvalidHandle) => nodes[n].native # nodes[m].native
    /\ \A n \in live : \A i \in DOMAIN nodes[n].actions : nodes[n].actions[i].tag.node = n
    /\ last.op = "drain" => \A i \in DOMAIN last.ret : last.ret[i].tag.node = last.node

\* Two live nodes are registered, the second by the call just made.
C3_Witness ==
    /\ last.op = "register"
    /\ \E n \in live, m \in live :
        /\ n # m
        /\ nodes[n].native # InvalidHandle
        /\ nodes[m].native # InvalidHandle
        /\ nodes[n].native # nodes[m].native

(***************************************************************************)
(* C6: a property setter leaves the sleeping flag as it was, and, apart    *)
(* from set_can_sleep(false), leaves the action queue as it was; the       *)
(* sleeping flag of a node changes only in steps of the integrator.        *)
(***************************************************************************)
C6_SettersKeepSleepingAndQueue ==
    [][/\ last'.op \in SetterOps =>
            /\ is_sleeping(nodes'[last'.node]) = is_sleeping(nodes[last'.node])
            /\ (last'.op = "set_can_sleep" /\ last'.args[1] = FALSE)
                 \/ nodes'[last'.node].actions = nodes[last'.node].actions
       /\ \A n \in live \cap live' :
            is_sleeping(nodes'[n]) # is_sleeping(nodes[n]) => last'.by = "integrator"]_vars

\* A setter has just been called on a sleeping node with a queued action.
C6_Witness ==
    /\ last.op \in SetterOps
    /\ is_sleeping(nodes[last.node])
    /\ nodes[last.node].actions # <<>>

(***************************************************************************)
(* C10: every command appends exactly one action, of its own variant and   *)
(* with the arguments given, to the tail of the node's queue, whatever the *)
(* body type and whether or not the node is registered.                    *)
(***************************************************************************)
\* The action a command is to enqueue.
CommandAction(op, args) ==
    CASE op = "apply_force" -> Force(args[1])
      [] op = "apply_torque" -> Torque(args[1])
      [] op = "apply_force_at_point" -> ForceAtPoint(args[1], args[2])
      [] op = "apply_impulse" -> Impulse(args[1])
      [] op = "apply_torque_impulse" -> TorqueImpulse(args[1])
      [] op = "apply_impulse_at_point" -> ImpulseAtPoint(args[1], args[2])
      [] op = "wake_up" -> WakeUp

C10_CommandAppendsOne ==
    [][last'.op \in CommandOps =>
         LET q == nodes[last'.node].actions
             r == nodes'[last'.node].actions
         IN /\ Len(r) = Len(q) + 1
            /\ SubSeq(r, 1, Len(q)) = q
            /\ r[Len(r)].action = CommandAction(last'.op, last'.args)]_vars

\* apply_impulse((1,0)) was called on an unregistered static node and the
\* drain that followed returned that one impulse and left the queue empty.
C10_Witness ==
    /\ last.op = "drain"
    /\ Len(last.ret) = 1
    /\ last.ret[1].action = Impulse(<<1, 0>>)
    /\ nodes[last.node].actions = <<>>
    /\ nodes[last.node].native = InvalidHandle
    /\ body_type(nodes[last.node]) = "Static"

(***************************************************************************)
(* History of the queues                                                   *)
(***************************************************************************)
\* The tags of the entries of a queue, in order.
TagsOf(q) == [i \in DOMAIN q |-> q[i].tag]

\* The tags of ts that producer p submitted to node n, in order.
Of(ts, p, n) ==
    LET mine(t) == t.by = p /\ t.node = n
    IN SelectSeq(ts, mine)

\* What producer p has enqueued on node n and no drain has returned yet.
Pending(p, n) ==
    LET returned == {drained[i].tag : i \in DOMAIN drained}
        waiting(t) == t.node = n /\ t \notin returned
    IN SelectSeq(submitted[p], waiting)

(***************************************************************************)
(* C4: a drain returns exactly the actions enqueued on the node since the  *)
(* drain before it, those of each producer in the order the producer       *)
(* submitted them, and leaves the queue empty; the drain of an empty queue *)
(* returns the empty sequence.                                             *)
(***************************************************************************)
C4_DrainReturnsAllInProducerOrder ==
    [][last'.op = "drain" =>
         LET n == last'.node
             ret == last'.ret
         IN /\ \A p \in Producers : Of(TagsOf(ret), p, n) = Pending(p, n)
            /\ \A i \in DOMAIN ret : ret[i].tag.by \in Producers /\ ret[i].tag.node = n
            /\ nodes'[n].actions = <<>>
            /\ nodes[n].actions = <<>> => ret = <<>>]_vars

\* A drain has returned three actions: one producer's two with the other
\* producer's one between them.
C4_Witness ==
    /\ last.op = "drain"
    /\ Len(last.ret) = 3
    /\ last.ret[1].tag.by = "script"
    /\ last.ret[2].tag.by = "ui"
    /\ last.ret[3].tag.by = "script"
    /\ nodes[last.node].actions = <<>>

(***************************************************************************)
(* C5: whatever the interleaving of enqueues and drains, every action a    *)
(* producer has enqueued on a node is either still in the node's queue or  *)
(* was returned by one drain, exactly once in all and in submission order: *)
(* nothing is lost, nothing is returned twice, and an action enqueued      *)
(* while the step is applying a drained batch waits in the queue.          *)
(***************************************************************************)
C5_EachActionDrainedOnce ==
    \A n \in live, p \in Producers :
        Of(TagsOf(drained \o nodes[n].actions), p, n) = Of(submitted[p], p, n)

\* A command was enqueued while the step was still applying the batch of
\* an earlier drain: it is pending in the queue.
C5_Witness ==
    /\ last.op \in CommandOps
    /\ stepNode = last.node
    /\ batch # <<>>
    /\ Len(nodes[last.node].actions) = 1
    /\ drained # <<>>

(***************************************************************************)
(* The builder as a chain of with_* calls                                  *)
(***************************************************************************)
\* One with_* call: the field it sets and the value.
WithCalls ==
    ({"lin_vel"} \X Vec)
    \cup ({"ang_vel", "lin_damping", "ang_damping", "mass"} \X Scalar)
    \cup ({"body_type"} \X RigidBodyType)
    \cup ({"rotation_locked", "translation_locked", "ccd_enabled", "can_sleep", "sleeping"}
            \X BOOLEAN)

\* The chains of at most MaxWith calls.
WithChains == UNION {[1..m -> WithCalls] : m \in 0..MaxWith}

\* The with_* method that sets field f.
With(b, f, v) ==
    CASE f = "lin_vel" -> with_lin_vel(b, v)
      [] f = "ang_vel" -> with_ang_vel(b, v)
      [] f = "lin_damping" -> with_lin_damping(b, v)
      [] f = "ang_damping" -> with_ang_damping(b, v)
      [] f = "mass" -> with_mass(b, v)
      [] f = "body_type" -> with_body_type(b, v)
      [] f = "rotation_locked" -> with_rotation_locked(b, v)
      [] f = "translation_locked" -> with_translation_locked(b, v)
      [] f = "ccd_enabled" -> with_ccd_enabled(b, v)
      [] f = "can_sleep" -> with_can_sleep(b, v)
      [] f = "sleeping" -> with_sleeping(b, v)

RECURSIVE ApplyChain(_, _)
\* RigidBodyBuilder::new(..).with_a(..).with_b(..)
ApplyChain(b, chain) ==
    IF chain = <<>> THEN b
    ELSE ApplyChain(With(b, Head(chain)[1], Head(chain)[2]), Tail(chain))

\* RigidBodyBuilder::new(..) followed by the chain and build(graph).
Build(chain) ==
    /\ fuel > 0
    /\ FreeSlots # {}
    /\ nodes' = [nodes EXCEPT ![FirstFree] = build_node(ApplyChain(RigidBodyBuilder_new, chain))]
    /\ live' = live \cup {FirstFree}
    /\ last' = CallRec("build", FirstFree, <<chain>>, "none", <<>>)
    /\ fuel' = fuel - 1
    /\ UNCHANGED <<nextHandle, submitted, stepNode, batch, drained, velWrite>>

\* Builder specification: one node is built into an empty graph from a
\* builder configured by any chain of with_* calls.
InitBuild == InitScene(0, 1, {RigidBodyBuilder_new})

NextBuild == \E chain \in WithChains : Build(chain)

SpecBuild == InitBuild /\ [][NextBuild]_vars

(***************************************************************************)
(* C11: a node produced by the builder has an invalid handle and an empty  *)
(* queue, and each property and the sleeping flag has the value last       *)
(* supplied to the builder or, when none was supplied, its default: zero   *)
(* velocities and damping, dynamic, mass 1.0, locks, ccd and sleeping      *)
(* false, sleep-permission true.                                           *)
(***************************************************************************)
\* The value a chain supplies for field f, or d when it supplies none.
Supplied(chain, f, d) ==
    LET at == {i \in DOMAIN chain : chain[i][1] = f}
    IN IF at = {} THEN d ELSE chain[CHOOSE i \in at : \A j \in at : j <= i][2]

C11_BuilderValuesOrDefaults ==
    last.op = "build" =>
        LET node == nodes[last.node]
            chain == last.args[1]
        IN /\ node.native = InvalidHandle
           /\ node.actions = <<>>
           /\ lin_vel(node) = Supplied(chain, "lin_vel", <<0, 0>>)
           /\ ang_vel(node) = Supplied(chain, "ang_vel", 0)
           /\ lin_damping(node) = Supplied(chain, "lin_damping", 0)
           /\ ang_damping(node) = Supplied(chain, "ang_damping", 0)
           /\ body_type(node) = Supplied(chain, "body_type", "Dynamic")
           /\ mass(node) = Supplied(chain, "mass", 1)
           /\ is_rotation_locked(node) = Supplied(chain, "rotation_locked", FALSE)
           /\ is_translation_locked(node) = Supplied(chain, "translation_locked", FALSE)
           /\ is_ccd_enabled(node) = Supplied(chain, "ccd_enabled", FALSE)
           /\ is_sleeping(node) = Supplied(chain, "sleeping", FALSE)
           /\ is_can_sleep(node) = Supplied(chain, "can_sleep", TRUE)

\* A node was built with mass 2 and continuous collision detection
\* supplied and everything else left to the defaults.
C11_Witness ==
    /\ last.op = "build"
    /\ Len(last.args[1]) = 2
    /\ mass(nodes[last.node]) = 2
    /\ is_ccd_enabled(nodes[last.node])
    /\ body_type(nodes[last.node]) = "Dynamic"
    /\ is_can_sleep(nodes[last.node])
    /\ nodes[last.node].native = InvalidHandle

(***************************************************************************)
(* C12: need_sync_model() is true exactly when at least one of the ten     *)
(* properties reports need_sync(); after a call of any setter it is true,  *)
(* and it stays true until the node's next synchronization.                *)
(***************************************************************************)
C12_NeedSyncModel ==
    [][/\ \A n \in live' :
            need_sync_model(nodes'[n]) = (\E f \in TemplateFields : TV_need_sync(nodes'[n][f]))
       /\ last'.op \in SetterOps => need_sync_model(nodes'[last'.node])
       /\ \A n \in live \cap live' :
            (need_sync_model(nodes[n]) /\ ~(last'.op = "drain" /\ last'.node = n))
                => need_sync_model(nodes'[n])]_vars

\* A setter was just called on a node, one of whose other properties was
\* set and synchronized before: the node needs synchronization again.
C12_Witness ==
    /\ last.op \in SetterOps
    /\ need_sync_model(nodes[last.node])
    /\ \E f \in TemplateFields :
          /\ nodes[last.node][f].custom
          /\ ~TV_need_sync(nodes[last.node][f])
          /\ f # SetterField[last.op]

(***************************************************************************)
(* C13, as stated: saving a node and loading it back preserves every       *)
(* overridable property and the sleeping flag; the handle and the queue    *)
(* are not saved, so the loaded node has an invalid handle and an empty    *)
(* queue.                                                                  *)
(***************************************************************************)
C13_LoadPreservesSleeping ==
    last.op = "load" =>
        LET loaded == nodes[last.node]
            saved == nodes[last.args[1]]
        IN /\ \A f \in TemplateFields :
                /\ Getter(loaded, f) = Getter(saved, f)
                /\ loaded[f].custom = saved[f].custom
           /\ is_sleeping(loaded) = is_sleeping(saved)
           /\ loaded.native = InvalidHandle
           /\ loaded.actions = <<>>

(***************************************************************************)
(* C13, amended: saving a node and loading it back preserves every         *)
(* overridable property; the sleeping flag, the handle and the queue are   *)
(* not saved, so the loaded node is not sleeping, has an invalid handle    *)
(* and an empty queue.                                                     *)
(***************************************************************************)
C13_LoadPreservesProperties ==
    last.op = "load" =>
        LET loaded == nodes[last.node]
            saved == nodes[last.args[1]]
        IN /\ \A f \in TemplateFields :
                /\ Getter(loaded, f) = Getter(saved, f)
                /\ loaded[f].custom = saved[f].custom
           /\ ~is_sleeping(loaded)
           /\ loaded.native = InvalidHandle
           /\ loaded.actions = <<>>

\* A sleeping, registered node with an explicitly set mass was saved and
\* loaded back: the loaded node has the mass and is awake.
C13_Witness ==
    /\ last.op = "load"
    /\ is_sleeping(nodes[last.args[1]])
    /\ nodes[last.args[1]].native # InvalidHandle
    /\ nodes[last.args[1]].mass.custom
    /\ mass(nodes[last.node]) = 2
    /\ ~is_sleeping(nodes[last.node])

(***************************************************************************)
(* Sleeping-body specification: a dynamic body that was built asleep is    *)
(* registered, has its velocities set and is stepped.                      *)
(***************************************************************************)
InitWake == InitScene(1, MaxWakeCalls, {with_sleeping(RigidBodyBuilder_new, TRUE)})

NextWake ==
    \/ Register(1)
    \/ \E v \in Vec : SetLinVel(1, v)
    \/ \E v \in Scalar : SetAngVel(1, v)
    \/ WakeUpCall(1, "script")
    \/ Step(1)

SpecWake == InitWake /\ [][NextWake]_vars

(***************************************************************************)
(* C14: setting a new linear or angular velocity wakes the body up: when   *)
(* the setter is called on a sleeping body, the body is not sleeping once  *)
(* the next simulation step has processed the change, though nobody asked  *)
(* for a wake-up.                                                          *)
(***************************************************************************)
C14_SetVelocityWakes ==
    [][(/\ last'.op = "step_end"
        /\ velWrite[last'.node] = "read"
        /\ nodes[last'.node].native # InvalidHandle
        /\ body_type(nodes[last'.node]) = "Dynamic")
           => ~is_sleeping(nodes'[last'.node])]_vars

(***************************************************************************)
(* C15: apply_impulse, apply_torque_impulse and apply_impulse_at_point are *)
(* applied right away: when the call returns, the linear or the angular    *)
(* velocity of a dynamic body has already been changed by the impulse.     *)
(***************************************************************************)
C15_ImpulseAppliedRightAway ==
    [][(/\ last'.op \in {"apply_impulse", "apply_torque_impulse", "apply_impulse_at_point"}
        /\ body_type(nodes[last'.node]) = "Dynamic"
        /\ last'.args[1] # (IF last'.op = "apply_torque_impulse" THEN 0 ELSE <<0, 0>>))
           => \/ lin_vel(nodes'[last'.node]) # lin_vel(nodes[last'.node])
              \/ ang_vel(nodes'[last'.node]) # ang_vel(nodes[last'.node])]_vars

(***************************************************************************)
(* C16: the backend handle of a node is invalid from its construction (by  *)
(* the builder, by Default or by raw_copy) until the integrator registers  *)
(* it; no setter, command, inherit or raw_copy call changes the handle of  *)
(* the node it is called on, before or after registration.                 *)
(***************************************************************************)
C16_HandleOnlySetByRegistration ==
    [][/\ RigidBody_default.native = InvalidHandle
       /\ \A n \in live' \ live : nodes'[n].native = InvalidHandle
       /\ \A n \in live \cap live' :
            nodes'[n].native # nodes[n].native =>
                /\ last'.op = "register"
                /\ last'.node = n
                /\ nodes[n].native = InvalidHandle]_vars

\* A registered node has just inherited from another node and still has
\* its handle; the other node, built later, has none.
C16_Witness ==
    /\ InheritedFromBody(last)
    /\ nodes[last.node].native # InvalidHandle
    /\ nodes[last.args[1]].native = InvalidHandle

(***************************************************************************)
(* Fair specification: two producers enqueue on one node while the         *)
(* integrator, which runs a step it has begun to its end, drains the       *)
(* queue and applies the actions.                                          *)
(***************************************************************************)
InitLive == InitScene(1, MaxLiveCalls, {RigidBodyBuilder_new})

NextLive ==
    \/ \E p \in Producers :
        \/ ApplyForce(1, p, <<1, 0>>)
        \/ WakeUpCall(1, p)
    \/ Register(1)
    \/ Step(1)

SpecLive ==
    /\ InitLive
    /\ [][NextLive]_vars
    /\ WF_vars(Apply)
    /\ WF_vars(\E s \in BOOLEAN : StepEnd(s))

(***************************************************************************)
(* C17: every enqueue and every drain on the action queue completes under  *)
(* fair scheduling: a caller can always enqueue, also while the integrator *)
(* is in a step on the same node and whatever the other producer does, and *)
(* a step that has drained the queue comes to its end.                     *)
(***************************************************************************)
C17_EnqueueAndDrainComplete ==
    /\ [](\A n \in live : \A p \in Producers :
            fuel > 0 => ENABLED ApplyForce(n, p, <<1, 0>>))
    /\ (stepNode # 0) ~> (stepNode = 0)

\* A step has come to its end after both producers enqueued during it:
\* their actions wait in the queue for the next drain.
C17_Witness ==
    /\ last.op = "step_end"
    /\ stepNode = 0
    /\ Len(nodes[1].actions) = 2
    /\ \A p \in Producers : Len(submitted[p]) = 1

(***************************************************************************)
(* C18: raw_copy preserves the explicit/inherited marker of every          *)
(* property along with its value: on the copy, a later inherit leaves a    *)
(* property that was explicitly set on the source as it is and gives every *)
(* other property the parent's value.                                      *)
(***************************************************************************)
C18_RawCopyKeepsMarkers ==
    last.op = "raw_copy" =>
        LET src == nodes[last.node]
            copy == nodes[last.ret[1]]
        IN /\ \A f \in TemplateFields :
                /\ copy[f].custom = src[f].custom
                /\ Getter(copy, f) = Getter(src, f)
           /\ \A b \in Builders :
                LET parent == build_node(b)
                    after == inherit(copy, Node_RigidBody2D(parent))
                IN \A f \in TemplateFields :
                     Getter(after, f) = IF src[f].custom THEN Getter(src, f)
                                        ELSE Getter(parent, f)

\* The source of the copy just made has an explicitly set angular velocity
\* 2 and the builder's linear velocity (0,0): with a parent of linear
\* velocity (3,4) and angular velocity 0, the copy keeps the 2 and takes
\* the (3,4).
C18_Witness ==
    /\ last.op = "raw_copy"
    /\ nodes[last.node].ang_vel.custom
    /\ ang_vel(nodes[last.node]) = 2
    /\ ~nodes[last.node].lin_vel.custom
    /\ lin_vel(nodes[last.node]) = <<0, 0>>
    /\ LET parent == build_node(with_lin_vel(with_mass(RigidBodyBuilder_new, 2), <<3, 4>>))
           after == inherit(nodes[last.ret[1]], Node_RigidBody2D(parent))
       IN /\ ang_vel(parent) = 0
          /\ ang_vel(after) = 2
          /\ lin_vel(after) = <<3, 4>>

(***************************************************************************)
(* C19: each property setter writes only its own property: after the call  *)
(* the getter of that property returns the new value, and the values and   *)
(* explicit/inherited markers of the other nine properties and the backend *)
(* handle are what they were.                                              *)
(***************************************************************************)
C19_SetterWritesOnlyItsProperty ==
    [][last'.op \in SetterOps =>
         LET n == last'.node
             own == SetterField[last'.op]
         IN /\ Getter(nodes'[n], own) = last'.args[1]
            /\ \A f \in TemplateFields \ {own} :
                 /\ Getter(nodes'[n], f) = Getter(nodes[n], f)
                 /\ nodes'[n][f].custom = nodes[n][f].custom
            /\ nodes'[n].native = nodes[n].native]_vars

\* lock_translation(true) was just called on a registered node whose mass
\* had been set explicitly: the translation is locked, the rotation is not,
\* and the mass is still explicit.
C19_Witness ==
    /\ last.op = "lock_translation"
    /\ is_translation_locked(nodes[last.node])
    /\ ~is_rotation_locked(nodes[last.node])
    /\ ~nodes[last.node].rotation_locked.custom
    /\ nodes[last.node].mass.custom
    /\ nodes[last.node].native # InvalidHandle

====
